---- MODULE Spec2Model ----
(***************************************************************************)
(* Model of curry.py: the Curry metaclass.  Curry(func, minargs, unique)   *)
(* fabricates a proxy class (the "factory"); calling the class builds a     *)
(* proxy instance holding an argument tuple and a keyword dictionary;       *)
(* calling an instance either accumulates further arguments into a new      *)
(* instance or invokes the curried function.                                *)
(***************************************************************************)
EXTENDS Integers, Sequences, FiniteSets, TLC

\* ---- bounds of the model ----
MaxFactories == 1
MaxProxies == 2
MaxTotal == 2
MaxNewArgs == 1
MaxNewKw == 1
MaxMutations == 1
MaxFactoriesTwo == 2

\* ---- the values the calls draw from ----
Vals == {1, 2}
Keys == {"x", "y"}
Funcs == {"g"}
Names == {"func", "args", "kwargs", "other"}

None == [tag |-> "none", val |-> 0]
IntV(n) == [tag |-> "int", val |-> n]
StrV == [tag |-> "str", val |-> 0]
FloatV == [tag |-> "float", val |-> 0]
MinArgsInputs == {None, StrV, FloatV} \cup {IntV(n) : n \in -1..3}

ArgInputs == UNION {[1..n -> Vals] : n \in 0..MaxNewArgs}
KwInputs == UNION {[D -> Vals] : D \in {K \in SUBSET Keys : Cardinality(K) <= MaxNewKw}}
NoArgs == << >>
NoKw == [k \in {} |-> 0]

VARIABLES factories, heap, chain, last, view
vars == <<factories, heap, chain, last, view>>

\* len(args) + len(kwargs) of an argument tuple and a keyword dictionary
Count(args, kwargs) == Len(args) + Cardinality(DOMAIN kwargs)

\* isinstance(minargs, Integral)
IsIntegral(minargs) == minargs.tag = "int"

\* mutant of CurryNew: the check for a negative minargs is missing
CurryNewNoNegativeCheck(func, minargs, unique) ==
    IF minargs # None /\ ~IsIntegral(minargs)
    THEN [kind |-> "TypeError", cls |-> [func |-> func, minargs |-> None, unique |-> unique]]
    ELSE [kind |-> "class", cls |-> [func |-> func, minargs |-> minargs, unique |-> unique]]

\* Curry.__new__: validation of minargs, then the proxy class
CurryNew(func, minargs, unique) ==
    IF minargs # None /\ ~IsIntegral(minargs)
    THEN [kind |-> "TypeError", cls |-> [func |-> func, minargs |-> None, unique |-> unique]]
    ELSE IF minargs # None /\ minargs.val < 0
    THEN [kind |-> "ValueError", cls |-> [func |-> func, minargs |-> None, unique |-> unique]]
    ELSE [kind |-> "class", cls |-> [func |-> func, minargs |-> minargs, unique |-> unique]]

\* mutant of CurryInit: the keyword dictionary is dropped at construction
CurryInitNoKw(fac, args, kwargs) == [fac |-> fac, args |-> args, kwargs |-> [k \in {} |-> 0]]

\* Curry.__init: the instance stores the arguments it is constructed with
CurryInit(fac, args, kwargs) == [fac |-> fac, args |-> args, kwargs |-> kwargs]

\* mutant of Concat: the new arguments are put in front of the stored ones
ConcatFront(selfargs, args) == args \o selfargs

\* mutant of Concat: the stored arguments are lost, only the new ones are kept
ConcatNewOnly(selfargs, args) == args

\* self._args + args
Concat(selfargs, args) == selfargs \o args

\* mutant of Collides: the dictionaries' items are compared instead of their keys
CollidesItems(selfkwargs, kwargs) ==
    \E k \in (DOMAIN selfkwargs) \cap (DOMAIN kwargs) : selfkwargs[k] = kwargs[k]

\* not self._kwargs.keys().isdisjoint(kwargs)
Collides(selfkwargs, kwargs) == (DOMAIN selfkwargs) \cap (DOMAIN kwargs) # {}

\* mutant of Merge: the dictionaries are unpacked in the other order, old values win
MergeOldWins(selfkwargs, kwargs) ==
    [k \in (DOMAIN selfkwargs) \cup (DOMAIN kwargs) |->
        IF k \in DOMAIN selfkwargs THEN selfkwargs[k] ELSE kwargs[k]]

\* {**self._kwargs, **kwargs}
Merge(selfkwargs, kwargs) ==
    [k \in (DOMAIN selfkwargs) \cup (DOMAIN kwargs) |->
        IF k \in DOMAIN kwargs THEN kwargs[k] ELSE selfkwargs[k]]

\* mutant of ThresholdMet: minargs is tested for truth, so that 0 counts as unset
ThresholdMetTruthy(minargs, newargs, newkwargs) ==
    minargs # None /\ minargs.val # 0 /\ minargs.val <= Count(newargs, newkwargs)

\* mutant of ThresholdMet: only the newly merged positional arguments are counted
ThresholdMetArgsOnly(minargs, newargs, newkwargs) ==
    minargs # None /\ minargs.val <= Len(newargs)

\* mutant of ThresholdMet: the comparison is strict, a count equal to minargs does not invoke
ThresholdMetStrict(minargs, newargs, newkwargs) ==
    minargs # None /\ minargs.val < Count(newargs, newkwargs)

\* mutant of ThresholdMet: an unset minargs is treated as 0
ThresholdMetNoneAsZero(minargs, newargs, newkwargs) ==
    minargs = None \/ minargs.val <= Count(newargs, newkwargs)

\* self._minargs is not None and self._minargs <= len(newargs) + len(newkwargs)
ThresholdMet(minargs, newargs, newkwargs) ==
    minargs # None /\ minargs.val <= Count(newargs, newkwargs)

\* mutant of CurryCall: an empty call below the threshold returns a proxy again
CurryCallEmptyGated(cls, self, args, kwargs) ==
    IF Len(args) > 0 \/ DOMAIN kwargs # {}
    THEN LET newargs == Concat(self.args, args) IN
         IF cls.unique /\ Collides(self.kwargs, kwargs)
         THEN [kind |-> "TypeError", args |-> NoArgs, kwargs |-> NoKw]
         ELSE LET newkwargs == Merge(self.kwargs, kwargs) IN
              IF ThresholdMet(cls.minargs, newargs, newkwargs)
              THEN [kind |-> "invoked", args |-> newargs, kwargs |-> newkwargs]
              ELSE [kind |-> "proxy", args |-> newargs, kwargs |-> newkwargs]
    ELSE IF ThresholdMet(cls.minargs, self.args, self.kwargs)
         THEN [kind |-> "invoked", args |-> self.args, kwargs |-> self.kwargs]
         ELSE [kind |-> "proxy", args |-> self.args, kwargs |-> self.kwargs]

\* mutant of CurryCall: the threshold is tested before the key collision
CurryCallThresholdFirst(cls, self, args, kwargs) ==
    IF Len(args) > 0 \/ DOMAIN kwargs # {}
    THEN LET newargs == Concat(self.args, args)
             newkwargs == Merge(self.kwargs, kwargs)
         IN  IF ThresholdMet(cls.minargs, newargs, newkwargs)
             THEN [kind |-> "invoked", args |-> newargs, kwargs |-> newkwargs]
             ELSE IF cls.unique /\ Collides(self.kwargs, kwargs)
             THEN [kind |-> "TypeError", args |-> NoArgs, kwargs |-> NoKw]
             ELSE [kind |-> "proxy", args |-> newargs, kwargs |-> newkwargs]
    ELSE [kind |-> "invoked", args |-> self.args, kwargs |-> self.kwargs]

\* Curry.__call on the instance self of the class cls: what it returns or raises
CurryCall(cls, self, args, kwargs) ==
    IF Len(args) > 0 \/ DOMAIN kwargs # {}
    THEN LET newargs == Concat(self.args, args) IN
         IF cls.unique /\ Collides(self.kwargs, kwargs)
         THEN [kind |-> "TypeError", args |-> NoArgs, kwargs |-> NoKw]
         ELSE LET newkwargs == Merge(self.kwargs, kwargs) IN
              IF ThresholdMet(cls.minargs, newargs, newkwargs)
              THEN [kind |-> "invoked", args |-> newargs, kwargs |-> newkwargs]
              ELSE [kind |-> "proxy", args |-> newargs, kwargs |-> newkwargs]
    ELSE [kind |-> "invoked", args |-> self.args, kwargs |-> self.kwargs]

\* mutant of CurryGet: self._kwargs itself is returned, not a copy of it
CurryGetNoCopy(cls, self, name) ==
    IF name = "func"
    THEN [kind |-> "func", func |-> cls.func, args |-> NoArgs, kwargs |-> NoKw, copied |-> FALSE]
    ELSE IF name = "args"
    THEN [kind |-> "args", func |-> "", args |-> self.args, kwargs |-> NoKw, copied |-> FALSE]
    ELSE IF name = "kwargs"
    THEN [kind |-> "kwargs", func |-> "", args |-> NoArgs, kwargs |-> self.kwargs, copied |-> FALSE]
    ELSE [kind |-> "None", func |-> "", args |-> NoArgs, kwargs |-> NoKw, copied |-> FALSE]

\* Curry.__get: the value of the attribute, None when no branch returns; copied
\* tells that the value is a new object (self._kwargs.copy()), not the stored one
CurryGet(cls, self, name) ==
    IF name = "func"
    THEN [kind |-> "func", func |-> cls.func, args |-> NoArgs, kwargs |-> NoKw, copied |-> FALSE]
    ELSE IF name = "args"
    THEN [kind |-> "args", func |-> "", args |-> self.args, kwargs |-> NoKw, copied |-> FALSE]
    ELSE IF name = "kwargs"
    THEN [kind |-> "kwargs", func |-> "", args |-> NoArgs, kwargs |-> self.kwargs, copied |-> TRUE]
    ELSE [kind |-> "None", func |-> "", args |-> NoArgs, kwargs |-> NoKw, copied |-> FALSE]

\* the dictionary the caller got from p.kwargs and still holds: the instance it
\* came from, whether it is that instance's own dictionary, its content, and
\* how many times the caller has changed it; owner 0 when the caller holds none
NoView == [owner |-> 0, alias |-> FALSE, val |-> NoKw, n |-> 0]

\* the record of the operation just performed
Op(op, fac, self, minargs, args, kwargs, name, kind, ret, rargs, rkwargs, rfunc) ==
    [op |-> op, fac |-> fac, self |-> self, minargs |-> minargs, args |-> args,
     kwargs |-> kwargs, name |-> name, kind |-> kind, ret |-> ret,
     rargs |-> rargs, rkwargs |-> rkwargs, rfunc |-> rfunc]

Init ==
    /\ factories = << >>
    /\ heap = << >>
    /\ chain = << >>
    /\ last = Op("start", 0, 0, None, NoArgs, NoKw, "", "none", 0, NoArgs, NoKw, "")
    /\ view = NoView

\* mutant of NewWithin: minargs and unique are kept in one place shared by all classes
NewWithinShared(limit, func, minargs, unique) ==
    /\ Len(factories) < limit
    /\ LET r == CurryNew(func, minargs, unique) IN
       /\ factories' = IF r.kind = "class"
                       THEN Append([i \in 1..Len(factories) |->
                                       [factories[i] EXCEPT !.minargs = r.cls.minargs,
                                                            !.unique = r.cls.unique]],
                                   r.cls)
                       ELSE factories
       /\ last' = Op("new", 0, 0, minargs, NoArgs, NoKw, "", r.kind,
                     IF r.kind = "class" THEN Len(factories) + 1 ELSE 0, NoArgs, NoKw, "")
    /\ view' = NoView
    /\ UNCHANGED <<heap, chain>>

\* Curry(func, minargs, unique), while fewer than limit classes exist
NewWithin(limit, func, minargs, unique) ==
    /\ Len(factories) < limit
    /\ LET r == CurryNew(func, minargs, unique) IN
       /\ factories' = IF r.kind = "class" THEN Append(factories, r.cls) ELSE factories
       /\ last' = Op("new", 0, 0, minargs, NoArgs, NoKw, "", r.kind,
                     IF r.kind = "class" THEN Len(factories) + 1 ELSE 0, NoArgs, NoKw, "")
    /\ view' = NoView
    /\ UNCHANGED <<heap, chain>>

\* Curry(func, minargs, unique)
New(func, minargs, unique) == NewWithin(MaxFactories, func, minargs, unique)

\* mutant of HeapAfterCall: the instance called is updated in place
HeapAfterCallInPlace(h, p, r) ==
    IF r.kind = "proxy" THEN [h EXCEPT ![p] = CurryInit(h[p].fac, r.args, r.kwargs)] ELSE h

\* the heap after an instance call that returned r: a new instance, or no change
HeapAfterCall(h, p, r) ==
    IF r.kind = "proxy" THEN Append(h, CurryInit(h[p].fac, r.args, r.kwargs)) ELSE h

\* mutant of FactoryCall: the class call runs the accumulation call on an empty instance
FactoryCallAccumulates(f, args, kwargs) ==
    /\ Len(heap) < MaxProxies
    /\ Count(args, kwargs) <= MaxTotal
    /\ LET r == CurryCall(factories[f], CurryInit(f, NoArgs, NoKw), args, kwargs) IN
       /\ heap' = IF r.kind = "proxy" THEN Append(heap, CurryInit(f, r.args, r.kwargs)) ELSE heap
       /\ chain' = IF r.kind = "proxy"
                   THEN Append(chain, <<[args |-> args, kwargs |-> kwargs]>>)
                   ELSE chain
       /\ last' = Op("init", f, 0, None, args, kwargs, "", r.kind,
                     IF r.kind = "proxy" THEN Len(heap) + 1 ELSE 0, r.args, r.kwargs,
                     IF r.kind = "invoked" THEN factories[f].func ELSE "")
    /\ view' = NoView
    /\ UNCHANGED factories

\* cls(*args, **kwargs): type.__call__ builds the instance through Curry.__init
FactoryCall(f, args, kwargs) ==
    /\ Len(heap) < MaxProxies
    /\ Count(args, kwargs) <= MaxTotal
    /\ LET self == CurryInit(f, args, kwargs) IN
       /\ heap' = Append(heap, self)
       /\ last' = Op("init", f, 0, None, args, kwargs, "", "proxy", Len(heap) + 1,
                     self.args, self.kwargs, "")
    /\ chain' = Append(chain, <<[args |-> args, kwargs |-> kwargs]>>)
    /\ view' = NoView
    /\ UNCHANGED factories

\* p(*args, **kwargs)
Call(p, args, kwargs) ==
    /\ LET r == CurryCall(factories[heap[p].fac], heap[p], args, kwargs) IN
       /\ r.kind = "proxy" => Len(heap) < MaxProxies /\ Count(r.args, r.kwargs) <= MaxTotal
       /\ heap' = HeapAfterCall(heap, p, r)
       /\ chain' = IF r.kind = "proxy"
                   THEN Append(chain, Append(chain[p], [args |-> args, kwargs |-> kwargs]))
                   ELSE chain
       /\ last' = Op("call", heap[p].fac, p, None, args, kwargs, "", r.kind,
                     IF r.kind = "proxy" THEN Len(heap) + 1 ELSE 0, r.args, r.kwargs,
                     IF r.kind = "invoked" THEN factories[heap[p].fac].func ELSE "")
    /\ view' = NoView
    /\ UNCHANGED factories

\* p.name
Get(p, name) ==
    /\ LET r == CurryGet(factories[heap[p].fac], heap[p], name) IN
       /\ last' = Op("get", heap[p].fac, p, None, NoArgs, NoKw, name, r.kind, 0,
                     r.args, r.kwargs, r.func)
       /\ view' = IF r.kind = "kwargs"
                  THEN [owner |-> p, alias |-> ~r.copied, val |-> r.kwargs, n |-> 0]
                  ELSE NoView
    /\ UNCHANGED <<factories, heap, chain>>

\* the heap after the caller has changed the dictionary it holds to nv: the
\* instance's dictionary changes with it only if it is the same object
HeapAfterMutation(h, v, nv) ==
    IF v.alias THEN [h EXCEPT ![v.owner].kwargs = nv] ELSE h

\* d = p.kwargs; d[k] = v
SetItem(k, v) ==
    /\ view.owner # 0 /\ view.n < MaxMutations
    /\ LET nv == [j \in (DOMAIN view.val) \cup {k} |-> IF j = k THEN v ELSE view.val[j]] IN
       /\ view' = [view EXCEPT !.val = nv, !.n = @ + 1]
       /\ heap' = HeapAfterMutation(heap, view, nv)
       /\ last' = Op("setitem", heap[view.owner].fac, view.owner, None, NoArgs, k :> v,
                     k, "none", 0, NoArgs, nv, "")
    /\ UNCHANGED <<factories, chain>>

\* d = p.kwargs; del d[k]
DelItem(k) ==
    /\ view.owner # 0 /\ view.n < MaxMutations
    /\ k \in DOMAIN view.val
    /\ LET nv == [j \in (DOMAIN view.val) \ {k} |-> view.val[j]] IN
       /\ view' = [view EXCEPT !.val = nv, !.n = @ + 1]
       /\ heap' = HeapAfterMutation(heap, view, nv)
       /\ last' = Op("delitem", heap[view.owner].fac, view.owner, None, NoArgs, NoKw,
                     k, "none", 0, NoArgs, nv, "")
    /\ UNCHANGED <<factories, chain>>

Next ==
    \/ \E func \in Funcs, minargs \in MinArgsInputs, unique \in BOOLEAN : New(func, minargs, unique)
    \/ \E f \in 1..Len(factories), args \in ArgInputs, kwargs \in KwInputs : FactoryCall(f, args, kwargs)
    \/ \E p \in 1..Len(heap), args \in ArgInputs, kwargs \in KwInputs : Call(p, args, kwargs)
    \/ \E p \in 1..Len(heap), name \in Names : Get(p, name)

Spec == Init /\ [][Next]_vars

\* the operations of the program together with a caller that changes the
\* dictionary it got from p.kwargs
NextView ==
    \/ Next
    \/ \E k \in Keys, v \in Vals : SetItem(k, v)
    \/ \E k \in Keys : DelItem(k)

SpecView == Init /\ [][NextView]_vars

\* two classes over the same function: the operations with up to MaxFactoriesTwo
\* classes, the arguments drawn from smaller sets
TwoMinArgs == {None, IntV(1), IntV(2)}
TwoArgs == {<< >>, <<1>>}
TwoKw == {NoKw, "x" :> 1}

NextTwo ==
    \/ \E func \in Funcs, minargs \in TwoMinArgs, unique \in BOOLEAN :
          NewWithin(MaxFactoriesTwo, func, minargs, unique)
    \/ \E f \in 1..Len(factories), args \in TwoArgs, kwargs \in TwoKw : FactoryCall(f, args, kwargs)
    \/ \E p \in 1..Len(heap), args \in TwoArgs, kwargs \in TwoKw : Call(p, args, kwargs)

SpecTwo == Init /\ [][NextTwo]_vars

(***************************************************************************)
(* Properties                                                              *)
(***************************************************************************)

\* the class of the operation recorded in last, and the instance it was applied to
LastCls == factories[last.fac]
LastSelf == heap[last.self]
LastNonEmpty == Len(last.args) > 0 \/ DOMAIN last.kwargs # {}

\* old overlaid with new, new values winning
Overlay(old, new) ==
    [k \in (DOMAIN old) \cup (DOMAIN new) |-> IF k \in DOMAIN new THEN new[k] ELSE old[k]]

\* minargs is set and n reaches it
Reaches(minargs, n) == minargs.tag = "int" /\ minargs.val <= n

\* what the accumulation call gives on an empty instance of the class of the last operation
OnEmpty == CurryCall(LastCls, CurryInit(last.fac, NoArgs, NoKw), last.args, last.kwargs)

C3_EmptyCallFinalizes ==
    (last.op = "call" /\ ~LastNonEmpty) =>
        /\ last.kind = "invoked" /\ last.rfunc = LastCls.func
        /\ last.rargs = LastSelf.args /\ last.rkwargs = LastSelf.kwargs
        /\ last.ret = 0

\* C3 witness: an empty call on a proxy holding one argument, minArgs = 3 never reached
C3_Witness ==
    /\ last.op = "call" /\ ~LastNonEmpty /\ last.kind = "invoked"
    /\ LastCls.minargs = IntV(3) /\ Count(LastSelf.args, LastSelf.kwargs) = 1

\* the positional arguments supplied by the calls of a chain, in call order
RECURSIVE Flat(_)
Flat(c) == IF c = << >> THEN << >> ELSE Flat(SubSeq(c, 1, Len(c) - 1)) \o c[Len(c)].args

\* C4: the positional arguments held by a proxy, or passed to func at invocation,
\* are the concatenation in call order of those supplied by each call of its chain.
C4_ArgsConcatenateInCallOrder ==
    /\ \A i \in 1..Len(heap) : heap[i].args = Flat(chain[i])
    /\ (last.op = "call" /\ last.kind = "invoked") =>
            last.rargs = Flat(chain[last.self]) \o last.args

\* C4 witness: three calls f(1)(2)(1) ending in the invocation of func with (1, 2, 1)
C4_Witness ==
    /\ last.op = "call" /\ last.kind = "invoked"
    /\ Len(chain[last.self]) = 2
    /\ chain[last.self][1].args = <<1>> /\ chain[last.self][2].args = <<2>>
    /\ last.args = <<1>> /\ last.rargs = <<1, 2, 1>>
\* C5: with uniqueKeys true, a call supplying an already accumulated keyword fails
\* with the key-collision error, produces no new CurriedCall and leaves every
\* CurriedCall unchanged, so that the one called still accepts a non-colliding
\* keyword and still finalizes with its original arguments.
C5_CollisionLeavesProxyUsable ==
    [][(/\ last'.op = "call"
        /\ last'.self \in 1..Len(heap)
        /\ factories[heap[last'.self].fac].unique
        /\ (DOMAIN heap[last'.self].kwargs) \cap (DOMAIN last'.kwargs) # {})
       => /\ last'.kind = "TypeError" /\ last'.ret = 0 /\ last'.rfunc = ""
          /\ heap' = heap
          /\ LET p == last'.self
                 cls == factories'[heap'[p].fac]
                 fin == CurryCall(cls, heap'[p], NoArgs, NoKw)
             IN  /\ fin.kind = "invoked"
                 /\ fin.args = heap[p].args /\ fin.kwargs = heap[p].kwargs
                 /\ \A k \in Keys \ DOMAIN heap[p].kwargs, v \in Vals :
                       LET r == CurryCall(cls, heap'[p], NoArgs, k :> v)
                       IN  /\ r.kind \in {"proxy", "invoked"}
                           /\ r.args = heap[p].args
                           /\ r.kwargs = Overlay(heap[p].kwargs, k :> v)]_vars

\* C5 witness: f(x=1)(x=2) has just failed on the proxy f(x=1), and y is still free
C5_Witness ==
    /\ last.op = "call" /\ last.kind = "TypeError"
    /\ LastCls.unique
    /\ LastSelf.kwargs = ("x" :> 1) /\ last.kwargs = ("x" :> 2)
    /\ Len(heap) = 1

\* the keyword arguments supplied by the calls of a chain, each key with the value
\* of the latest call that supplied it
LatestKw(c) ==
    [k \in UNION {DOMAIN c[j].kwargs : j \in 1..Len(c)} |->
        LET js == {j \in 1..Len(c) : k \in DOMAIN c[j].kwargs}
            m == CHOOSE j \in js : \A i \in js : i <= j
        IN  c[m].kwargs[k]]

\* C6: with uniqueKeys false a call supplying an already accumulated keyword never
\* fails, and each key held by the proxy or passed to func has the value of the
\* latest call that supplied it.
C6_LaterValueWins ==
    /\ \A i \in 1..Len(heap) :
          ~factories[heap[i].fac].unique => heap[i].kwargs = LatestKw(chain[i])
    /\ (last.op = "call" /\ ~LastCls.unique) =>
          /\ last.kind \in {"proxy", "invoked"}
          /\ last.kind = "invoked" =>
                last.rkwargs = LatestKw(Append(chain[last.self],
                                               [args |-> last.args, kwargs |-> last.kwargs]))

\* C6 witness: f(x=1)(x=2)() has invoked func with x=2
C6_Witness ==
    /\ last.op = "call" /\ ~LastNonEmpty /\ last.kind = "invoked"
    /\ ~LastCls.unique
    /\ Len(chain[last.self]) = 2
    /\ chain[last.self][1].kwargs = ("x" :> 1) /\ chain[last.self][2].kwargs = ("x" :> 2)
    /\ last.rkwargs = ("x" :> 2)

\* C7: no call changes the args or kwargs of the CurriedCall it is applied to or
\* of any other existing CurriedCall, and a call on p sees p's arguments plus its
\* own only, whatever other calls were made from p before.
C7_CallsNeverMutate ==
    [][/\ \A i \in 1..Len(heap) : i <= Len(heap') /\ heap'[i] = heap[i]
       /\ (last'.op = "call" /\ last'.kind \in {"proxy", "invoked"}
           /\ last'.self \in 1..Len(heap))
          => LET p == last'.self
                 seenArgs == IF last'.kind = "proxy" THEN heap'[last'.ret].args ELSE last'.rargs
                 seenKwargs == IF last'.kind = "proxy" THEN heap'[last'.ret].kwargs ELSE last'.rkwargs
             IN  /\ last'.kind = "proxy" => last'.ret = Len(heap) + 1 /\ Len(heap') = last'.ret
                 /\ seenArgs = heap[p].args \o last'.args
                 /\ seenKwargs = Overlay(heap[p].kwargs, last'.kwargs)]_vars

\* C7 witness: p = f(1); p(2) gave a second proxy holding (1, 2); p(1, x=1) then
\* invoked func with (1, 1), not seeing the 2
C7_Witness ==
    /\ Len(heap) = 2 /\ heap[1].args = <<1>> /\ heap[2].args = <<1, 2>>
    /\ Len(chain[2]) = 2 /\ chain[2][1] = chain[1][1]
    /\ last.op = "call" /\ last.self = 1 /\ last.args = <<1>>
    /\ last.kind = "invoked" /\ last.rargs = <<1, 1>>

\* C8: constructing a factory with a minArgs that is supplied but negative or not
\* an integer fails and produces no factory; with minArgs absent or any
\* non-negative integer, 0 included, it succeeds.
C8_MinArgsValidated ==
    [][last'.op = "new" =>
          IF last'.minargs.tag = "none" \/ (last'.minargs.tag = "int" /\ last'.minargs.val >= 0)
          THEN /\ last'.kind = "class"
               /\ Len(factories') = Len(factories) + 1
               /\ last'.ret = Len(factories')
               /\ factories'[last'.ret].minargs = last'.minargs
               /\ \A i \in 1..Len(factories) : factories'[i] = factories[i]
          ELSE /\ last'.kind \in {"TypeError", "ValueError"}
               /\ last'.ret = 0
               /\ factories' = factories]_vars

\* C8 witness: Curry(g, minargs=-1) has failed and there is no factory
C8_Witness ==
    /\ last.op = "new" /\ last.minargs = IntV(-1) /\ last.kind = "ValueError"
    /\ factories = << >>

\* C9: reading an attribute of a CurriedCall whose name is not func, args or
\* kwargs fails with an AttributeError.
C9_UnknownAttributeRaises ==
    (last.op = "get" /\ last.name \notin {"func", "args", "kwargs"}) =>
        last.kind = "AttributeError"

C11_EmptyFactoryCallGivesEmptyProxy ==
    (last.op = "init" /\ ~LastNonEmpty) =>
        /\ last.kind = "proxy" /\ last.rfunc = ""
        /\ last.ret = Len(heap)
        /\ Len(heap[last.ret].args) = 0
        /\ DOMAIN heap[last.ret].kwargs = {}

\* C11 witness: f() with minargs = 0, where an accumulation call would have invoked func
C11_Witness ==
    /\ last.op = "init" /\ ~LastNonEmpty /\ last.kind = "proxy"
    /\ LastCls.minargs = IntV(0)
    /\ heap[last.ret].args = << >>
\* C14: len(args) + len(kwargs) of a CurriedCall returned by an accumulation call
\* is at least that of the CurriedCall it was produced from, also when
\* uniqueKeys is false and a keyword is overwritten.
C14_CountNeverDecreases ==
    (last.op = "call" /\ last.kind = "proxy") =>
        /\ last.ret \in 1..Len(heap)
        /\ Count(heap[last.ret].args, heap[last.ret].kwargs)
              >= Count(LastSelf.args, LastSelf.kwargs)

\* C14 witness: with uniqueKeys false, f(1, x=1)(x=2) overwrote x and the count stayed 2
C14_Witness ==
    /\ last.op = "call" /\ last.kind = "proxy" /\ ~LastCls.unique
    /\ LastSelf.args = <<1>> /\ LastSelf.kwargs = ("x" :> 1)
    /\ last.args = << >> /\ last.kwargs = ("x" :> 2)
    /\ Count(heap[last.ret].args, heap[last.ret].kwargs) = 2

C16_CollisionBeforeThreshold ==
    (/\ last.op = "call" /\ LastCls.unique
     /\ (DOMAIN LastSelf.kwargs) \cap (DOMAIN last.kwargs) # {}
     /\ Reaches(LastCls.minargs,
                Len(LastSelf.args) + Len(last.args)
                  + Cardinality((DOMAIN LastSelf.kwargs) \cup (DOMAIN last.kwargs))))
    => (last.kind = "TypeError" /\ last.rfunc = "" /\ last.ret = 0)

\* C16 witness: minargs = 2, f(1, x=1)(x=2): the merged count 2 reaches minargs, the call fails
C16_Witness ==
    /\ last.op = "call" /\ last.kind = "TypeError" /\ LastCls.unique
    /\ LastCls.minargs = IntV(2)
    /\ LastSelf.args = <<1>> /\ LastSelf.kwargs = ("x" :> 1)
    /\ last.kwargs = ("x" :> 2)

\* C17: func is invoked only by an empty call or by a non-empty call whose merged
\* count reaches a set minArgs; when minArgs is not set no non-empty call
\* invokes func, and every such call that succeeds returns a CurriedCall.
C17_InvokedOnlyWhenDue ==
    /\ last.kind = "invoked" =>
          /\ last.op = "call"
          /\ \/ ~LastNonEmpty
             \/ Reaches(LastCls.minargs, Count(last.rargs, last.rkwargs))
    /\ (last.op = "call" /\ LastNonEmpty /\ LastCls.minargs.tag = "none"
        /\ last.kind # "TypeError") =>
          /\ last.kind = "proxy" /\ last.rfunc = ""
          /\ last.ret = Len(heap)

\* C17 witness: minargs unset, f(1)(2) is the second non-empty call and returned a proxy
C17_Witness ==
    /\ last.op = "call" /\ last.kind = "proxy" /\ LastCls.minargs = None
    /\ LastSelf.args = <<1>> /\ last.args = <<2>>
    /\ heap[last.ret].args = <<1, 2>>
\* C12: the mapping read from p.kwargs is a copy: adding, removing or replacing
\* its entries changes neither the kwargs stored in any CurriedCall nor the
\* outcome of any later call of p; and reading args, func or kwargs returns the
\* accumulated positional sequence, the bound function and the accumulated
\* mapping without changing any CurriedCall.
C12_AccessorsLeaveProxyAlone ==
    [][/\ (last'.op = "get" /\ last'.self \in 1..Len(heap)) =>
            LET p == last'.self IN
            /\ heap' = heap
            /\ last'.name = "args" => last'.kind = "args" /\ last'.rargs = heap[p].args
            /\ last'.name = "func" =>
                  last'.kind = "func" /\ last'.rfunc = factories[heap[p].fac].func
            /\ last'.name = "kwargs" =>
                  /\ last'.kind = "kwargs" /\ last'.rkwargs = heap[p].kwargs
                  /\ view'.owner = p /\ view'.val = heap[p].kwargs
       /\ last'.op \in {"setitem", "delitem"} =>
            LET p == view.owner
                cls == factories[heap[p].fac]
            IN  /\ heap' = heap
                /\ \A args \in ArgInputs, kwargs \in KwInputs :
                      CurryCall(cls, heap'[p], args, kwargs) = CurryCall(cls, heap[p], args, kwargs)]_vars

\* C12 witness: d = p.kwargs of a proxy holding x=1; after d["x"] = 2 the caller's
\* mapping says x=2 and the proxy still holds x=1
C12_Witness ==
    /\ last.op = "setitem" /\ last.name = "x"
    /\ view.owner = last.self /\ view.n = 1
    /\ view.val = ("x" :> 2)
    /\ heap[view.owner].kwargs = ("x" :> 1)
\* C13: factories over the same function are independent: no step, creating a
\* second factory and calling it or its proxies included, changes the settings
\* of an existing factory, the factory a proxy descends from, or the outcome of
\* any call on an existing proxy; a proxy returned by a call descends from the
\* factory of the proxy called, and the call is decided by that factory's
\* minArgs and uniqueKeys.
C13_FactoriesIndependent ==
    [][/\ \A i \in 1..Len(factories) : i <= Len(factories') /\ factories'[i] = factories[i]
       /\ \A p \in 1..Len(heap) :
             /\ p <= Len(heap') /\ heap'[p].fac = heap[p].fac
             /\ \A args \in TwoArgs, kwargs \in TwoKw :
                   CurryCall(factories'[heap'[p].fac], heap'[p], args, kwargs)
                     = CurryCall(factories[heap[p].fac], heap[p], args, kwargs)
       /\ (last'.op = "call" /\ last'.self \in 1..Len(heap)) =>
             LET p == last'.self
                 own == factories[heap[p].fac]
                 n == Len(heap[p].args) + Len(last'.args)
                        + Cardinality((DOMAIN heap[p].kwargs) \cup (DOMAIN last'.kwargs))
                 nonEmpty == Len(last'.args) > 0 \/ DOMAIN last'.kwargs # {}
                 clash == (DOMAIN heap[p].kwargs) \cap (DOMAIN last'.kwargs) # {}
             IN  /\ last'.kind = "TypeError" <=> (nonEmpty /\ own.unique /\ clash)
                 /\ last'.kind = "invoked" <=>
                       (~nonEmpty \/ (~(own.unique /\ clash) /\ Reaches(own.minargs, n)))
                 /\ last'.kind = "proxy" =>
                       /\ last'.ret = Len(heap) + 1 /\ Len(heap') = last'.ret
                       /\ heap'[last'.ret].fac = heap[p].fac]_vars

\* C13 witness: two factories over g with different settings, a proxy of each;
\* the call p(x=1) on the first one's proxy holding x=1 is decided by the first
\* factory (no uniqueKeys, minargs 1: func invoked), not by the second
\* (uniqueKeys, minargs 2)
C13_Witness ==
    /\ Len(factories) = 2 /\ factories[1].func = factories[2].func
    /\ factories[1].minargs = IntV(1) /\ ~factories[1].unique
    /\ factories[2].minargs = IntV(2) /\ factories[2].unique
    /\ Len(heap) = 2 /\ heap[1].fac = 1 /\ heap[2].fac = 2
    /\ last.op = "call" /\ last.self = 1
    /\ heap[1].kwargs = ("x" :> 1) /\ last.kwargs = ("x" :> 1)
    /\ last.kind = "invoked"
====
